---- MODULE Spec2Model ----
(***************************************************************************)
(* Model of daqflex/devices.py (class MCCDevice): the one-shot read path   *)
(* (configure_read, send_message, read_scan_data, flush_input_data,        *)
(* simple_read, stop) and the continuous transfer path                     *)
(* (start_continuous_transfer, stop_continuous_transfer,                   *)
(* get_new_bulk_data) together with the background PollingThread.          *)
(*                                                                         *)
(* The caller is one thread whose position is pc; every bulk read and      *)
(* every command is answered by the USB device, whose answers are chosen   *)
(* nondeterministically.                                                   *)
(***************************************************************************)
EXTENDS Integers, Sequences, FiniteSets, TLC

\* ---------------------------------------------------------------- bounds
MaxChan == 2        \* channels are 0..MaxChan
MaxSamples == 4     \* largest nsamples a caller asks for
MaxPktBytes == 4    \* largest number of bytes one bulk read delivers
MaxThreads == 2     \* start_continuous_transfer calls in one session
MaxBufSize == 2     \* largest buf_size a caller asks for
MaxPackets == 2     \* packets the pollers read in one session

\* ------------------------------------------------------ program constants
MaxRetries == 10    \* `if self.read_recursion_depth < 10`
max_counts == 4095  \* USB_1208FS.max_counts = 0x0FFF

None == "None"
\* self.conf = None
NoConf == <<>>

Modes == {"SE", "DIFF"}
VRanges == {10}
Frequencies == {1000}
NSamplesSet == {MaxSamples}
Channels == 0..MaxChan
CalibValues == {<<1, 0>>, <<2, 3>>}   \* (slope, offset) pairs the device reports

\* the arguments of simple_read / configure_read; lowchan <= highchan is the
\* ScanConfig invariant every caller is assumed to respect
ReadArgs ==
    { a \in [frequency : Frequencies, nsamples : NSamplesSet,
             lowchan : Channels, highchan : Channels,
             vrange : VRanges, mode : Modes, scale : BOOLEAN,
             wait : {FALSE}] :
        a.lowchan <= a.highchan }

\* configure_read takes no scale argument
ConfArgs == { a \in ReadArgs : a.lowchan = 0 /\ ~a.scale }

NoArgs == [frequency |-> 0, nsamples |-> 0, lowchan |-> 0, highchan |-> 0,
           vrange |-> 0, mode |-> None, scale |-> FALSE, wait |-> FALSE]

\* the empty dicts
NoCalib == [k \in {} |-> <<0, 0>>]
NoOut == [c \in {} |-> <<>>]

VARIABLES
    \* ---- MCCDevice fields
    conf,                   \* self.conf
    calib_data,             \* self.calib_data
    read_recursion_depth,   \* self.read_recursion_depth
    polling_thread,         \* self._polling_thread: <<>> for None, <<t>> for thread t
    data_buffer,            \* self.data_buffer: <<>> for None, <<b>> for deque b
    \* ---- the caller's thread
    pc,                     \* position of the caller
    op,                     \* the top-level method being (or last) executed
    args,                   \* arguments of the running call
    data,                   \* local `data` of read_scan_data / `raw` of simple_read
    packet,                 \* local `packet` of the bulk read loops (its length in bytes)
    out,                    \* local `out` of simple_read
    chans,                  \* channels the for loop of simple_read has still to visit
    ret,                    \* value returned by the last finished call
    sent,                   \* commands passed to send_message by the running call
    nreads,                 \* read_scan_data calls made by the running simple_read
    startDepth,             \* read_recursion_depth when the running call was entered
    \* ---- the device
    dev,                    \* settings the device has received, and whether it scans
    xfer,                   \* how the last transfer of the running call ended
    \* ---- continuous transfer
    bufs,                   \* the deques created by start_continuous_transfer
    threads,                \* the PollingThread objects created so far
    drained                 \* local `data` of get_new_bulk_data

vars == <<conf, calib_data, read_recursion_depth, polling_thread, data_buffer,
          pc, op, args, data, packet, out, chans, ret, sent, nreads, startDepth, dev,
          xfer, bufs, threads, drained>>

sessionVars == <<conf, calib_data, read_recursion_depth>>
streamVars == <<polling_thread, data_buffer, bufs, threads, drained>>
localVars == <<data, packet, out, chans, nreads, startDepth>>

\* ------------------------------------------------------------ send_message
\* One send_message call either returns the reply ("ok"), raises before the
\* device got the command ("fail_out": short write or USBError of the OUT
\* transfer), or raises after it ("fail_in": USBError of the IN transfer).
Outcomes == {"ok", "fail_out", "fail_in"}
Raises(o) == o # "ok"
Received(o) == o # "fail_out"

RangeCode(v) == <<"BIP", v, "V">>

\* what the device does with one command
DevApply(d, cmd) ==
    CASE cmd[1] = "AI:CHMODE"       -> [d EXCEPT !.chmode = cmd[2]]
      [] cmd[1] = "AISCAN:RANGE"    -> [d EXCEPT !.range = cmd[2]]
      [] cmd[1] = "AISCAN:LOWCHAN"  -> [d EXCEPT !.lowchan = cmd[2]]
      [] cmd[1] = "AISCAN:HIGHCHAN" -> [d EXCEPT !.highchan = cmd[2]]
      [] cmd[1] = "AISCAN:RATE"     -> [d EXCEPT !.rate = cmd[2]]
      [] cmd[1] = "AISCAN:SAMPLES"  -> [d EXCEPT !.samples = cmd[2]]
      [] cmd[1] = "AISCAN:START"    -> [d EXCEPT !.scanning = TRUE]
      [] cmd[1] = "AISCAN:STOP"     -> [d EXCEPT !.scanning = FALSE]
      [] OTHER                      -> d

RECURSIVE DevApplyAll(_, _)
DevApplyAll(d, cmds) ==
    IF cmds = <<>> THEN d
    ELSE DevApplyAll(DevApply(d, Head(cmds)), Tail(cmds))

\* send_message(cmd) with outcome o: the command is logged, the device acts on
\* it when it received it
SendLog(cmd) == Append(sent, cmd)
SendDev(cmd, o) == IF Received(o) THEN DevApply(dev, cmd) ELSE dev

\* ---------------------------------------------------------- configure_read
NewConf(a) == <<a.mode, a.vrange, a.lowchan, a.highchan, a.frequency, a.nsamples>>

\* mutant: the channel bounds are sent high channel first
ConfCommands_HighFirst(a) ==
    << <<"AI:CHMODE", a.mode>>,
       <<"AISCAN:RANGE", RangeCode(a.vrange)>>,
       <<"AISCAN:HIGHCHAN", a.highchan>>,
       <<"AISCAN:LOWCHAN", a.lowchan>>,
       <<"AISCAN:RATE", a.frequency>>,
       <<"AISCAN:SAMPLES", a.nsamples>> >>

ConfCommands(a) ==
    << <<"AI:CHMODE", a.mode>>,
       <<"AISCAN:RANGE", RangeCode(a.vrange)>>,
       <<"AISCAN:LOWCHAN", a.lowchan>>,
       <<"AISCAN:HIGHCHAN", a.highchan>>,
       <<"AISCAN:RATE", a.frequency>>,
       <<"AISCAN:SAMPLES", a.nsamples>> >>

\* mutant: `if new_conf is self.conf`, which a fresh tuple never is
ConfSkipped_Identity(a) == FALSE

\* `if new_conf == self.conf: return`
ConfSkipped(a) == NewConf(a) = conf

\* The body of configure_read for arguments a.  k = 0: no command fails;
\* k in 1..6: the k-th send_message raises with outcome o.
\* The commands issued, the commands the device received, the recorded conf.
ConfIssued(a, k) ==
    IF ConfSkipped(a) THEN <<>>
    ELSE SubSeq(ConfCommands(a), 1, IF k = 0 THEN 6 ELSE k)
ConfReceived(a, k, o) ==
    IF ConfSkipped(a) THEN <<>>
    ELSE SubSeq(ConfCommands(a), 1,
                IF k = 0 THEN 6 ELSE IF Received(o) THEN k ELSE k - 1)
ConfRaises(a, k) == ~ConfSkipped(a) /\ k # 0
\* mutant: self.conf is assigned before the commands are sent
ConfAfter_Eager(a, k) == IF ConfSkipped(a) THEN conf ELSE NewConf(a)
ConfAfter(a, k) == IF ConfSkipped(a) \/ k # 0 THEN conf ELSE NewConf(a)

\* the failure points of one configure_read call
ConfFailures == { <<k, o>> \in (0..6) \X Outcomes : (k = 0) <=> (o = "ok") }

\* a method may be called when the caller is not inside another one
Ready == pc \in {"idle", "returned", "raised"}

NoRet == [kind |-> None, val |-> <<>>]

\* configure_read(frequency, nsamples, lowchan, highchan, vrange, mode)
ConfigureRead(A, F) ==
    /\ Ready
    /\ \E a \in A, f \in F :
        /\ op' = "configure_read"
        /\ args' = a
        /\ sent' = ConfIssued(a, f[1])
        /\ dev' = DevApplyAll(dev, ConfReceived(a, f[1], f[2]))
        /\ conf' = ConfAfter(a, f[1])
        /\ xfer' = IF ConfSkipped(a) THEN None ELSE f[2]
        /\ pc' = IF ConfRaises(a, f[1]) THEN "raised" ELSE "returned"
        /\ ret' = NoRet
    /\ UNCHANGED <<calib_data, read_recursion_depth, localVars, streamVars>>

\* -------------------------------------------------------------------- stop
ScanStart == <<"AISCAN:START">>
ScanStop == <<"AISCAN:STOP">>

\* stop(): send_message("AISCAN:STOP")
Stop ==
    /\ Ready
    /\ \E o \in Outcomes :
        /\ sent' = <<ScanStop>>
        /\ dev' = SendDev(ScanStop, o)
        /\ xfer' = o
        /\ pc' = IF Raises(o) THEN "raised" ELSE "returned"
    /\ op' = "stop"
    /\ args' = NoArgs
    /\ ret' = NoRet
    /\ UNCHANGED <<sessionVars, localVars, streamVars>>

\* ------------------------------------------------------------ the bulk pipe
\* The k-th sample (k = 1, 2, ...) the device produces after a scan start,
\* and the bytes it puts on the bulk pipe for it (16 bit, little endian).
DevSample(k) == 10 * k
ByteAt(i) ==
    IF i % 2 = 0 THEN DevSample(i \div 2 + 1) % 256
                 ELSE DevSample(i \div 2 + 1) \div 256
\* the n bytes that follow byte position pos of the stream
DevBytes(pos, n) == [j \in 1..n |-> ByteAt(pos + j - 1)]

\* array('H').fromstring(packet): pairs of bytes become 16-bit values
FromString(bytes) ==
    [j \in 1..(Len(bytes) \div 2) |-> bytes[2 * j - 1] + 256 * bytes[2 * j]]

\* what one self._ep_in.read(...) does: it raises USBError with errno
\* ETIMEDOUT ("timeout"), raises another USBError ("fault"), or returns a
\* packet of n bytes
BulkResults ==
    {[kind |-> "timeout", len |-> 0], [kind |-> "fault", len |-> 0]}
        \cup [kind : {"packet"}, len : 0..MaxPktBytes]
IsPacket(r) == r.kind = "packet"
\* the local `packet`: <<>> for None, <<n>> for a packet of n bytes
NoPacket == <<>>

\* ---------------------------------------------------------- read_scan_data
\* `if (packet is None) or (len(packet) == 0): break`
ReadQuiet(r) == r.kind = "timeout" \/ (IsPacket(r) /\ r.len = 0)
\* the loop raises: a USBError other than a timeout, or fromstring on a
\* packet that is not a whole number of 16-bit items
\* mutant: every USBError is raised again, the timeout too
ReadRaises_AnyUSBError(r) == r.kind \in {"fault", "timeout"}
ReadRaises(r) == r.kind = "fault" \/ (IsPacket(r) /\ r.len % 2 = 1)
ReadData(r) ==
    IF ReadQuiet(r) \/ ReadRaises(r) THEN data
    ELSE data \o FromString(DevBytes(2 * Len(data), r.len))
\* `if len(data) >= length: break`
ReadFull(d, length) == Len(d) >= length
ReadEnds(r, length) == ReadQuiet(r) \/ ReadFull(ReadData(r), length)

\* read_scan_data(length, rate) called by the user
ReadScanData ==
    /\ Ready
    /\ \E n \in NSamplesSet : args' = [NoArgs EXCEPT !.nsamples = n]
    /\ op' = "read_scan_data"
    /\ pc' = "rs_read"
    /\ data' = <<>>
    /\ packet' = NoPacket
    /\ sent' = <<>>
    /\ ret' = NoRet
    /\ xfer' = None
    /\ UNCHANGED <<sessionVars, streamVars, out, chans, nreads, startDepth, dev>>

\* one iteration of the loop of read_scan_data
ReadScanStep ==
    /\ pc = "rs_read"
    /\ \E r \in BulkResults :
        /\ packet' = IF IsPacket(r) THEN <<r.len>> ELSE NoPacket
        /\ data' = ReadData(r)
        /\ pc' = IF ReadRaises(r) THEN "raised"
                 ELSE IF ~ReadEnds(r, args.nsamples) THEN "rs_read"
                 ELSE IF op = "simple_read" THEN "sr_stop" ELSE "returned"
        /\ nreads' = IF op = "simple_read" /\ ~ReadRaises(r)
                        /\ ReadEnds(r, args.nsamples)
                     THEN nreads + 1 ELSE nreads
        /\ ret' = IF op = "read_scan_data" /\ ~ReadRaises(r)
                     /\ ReadEnds(r, args.nsamples)
                  THEN [kind |-> "seq", val |-> ReadData(r)] ELSE ret
        /\ xfer' = r.kind
    /\ UNCHANGED <<sessionVars, streamVars, op, args, out, chans, sent,
                   startDepth, dev>>

\* -------------------------------------------------------- flush_input_data
\* the loop ends on any USBError and on an empty packet
FlushEnds(r) == r.kind = "timeout" \/ r.kind = "fault" \/ r.len = 0

\* flush_input_data() called by the user
FlushInputData ==
    /\ Ready
    /\ op' = "flush_input_data"
    /\ args' = NoArgs
    /\ pc' = "fl_read"
    /\ packet' = NoPacket
    /\ sent' = <<>>
    /\ ret' = NoRet
    /\ xfer' = None
    /\ UNCHANGED <<sessionVars, streamVars, data, out, chans, nreads,
                   startDepth, dev>>

\* one iteration of the loop of flush_input_data; when simple_read called it,
\* the recursive simple_read call follows
FlushStep ==
    /\ pc = "fl_read"
    /\ \E r \in BulkResults :
        /\ packet' = IF IsPacket(r) THEN <<r.len>> ELSE packet
        /\ pc' = IF ~FlushEnds(r) THEN "fl_read"
                 ELSE IF op = "simple_read" THEN "sr_conf" ELSE "returned"
    /\ UNCHANGED <<sessionVars, streamVars, op, args, data, out, chans, ret,
                   sent, nreads, startDepth, dev, xfer>>

\* ------------------------------------------------------------- simple_read
\* simple_read(frequency, nsamples, lowchan, highchan, vrange, mode, scale)
\* called by the user
SimpleRead(A) ==
    /\ Ready
    /\ \E a \in A : args' = a
    /\ op' = "simple_read"
    /\ pc' = "sr_conf"
    /\ data' = <<>>
    /\ packet' = NoPacket
    /\ out' = NoOut
    /\ chans' = <<>>
    /\ ret' = NoRet
    /\ sent' = <<>>
    /\ nreads' = 0
    /\ startDepth' = read_recursion_depth
    /\ xfer' = None
    /\ UNCHANGED <<sessionVars, streamVars, dev>>

\* self.configure_read(frequency, nsamples, lowchan, highchan, vrange, mode)
SR_Configure(F) ==
    /\ pc = "sr_conf"
    /\ \E f \in F :
        /\ sent' = sent \o ConfIssued(args, f[1])
        /\ dev' = DevApplyAll(dev, ConfReceived(args, f[1], f[2]))
        /\ conf' = ConfAfter(args, f[1])
        /\ xfer' = IF ConfSkipped(args) THEN xfer ELSE f[2]
        /\ pc' = IF ConfRaises(args, f[1]) THEN "raised" ELSE "sr_start"
    /\ UNCHANGED <<calib_data, read_recursion_depth, streamVars, op, args,
                   localVars, ret>>

\* self.send_message("AISCAN:START"), then read_scan_data is entered
SR_Start ==
    /\ pc = "sr_start"
    /\ \E o \in Outcomes :
        /\ sent' = SendLog(ScanStart)
        /\ dev' = SendDev(ScanStart, o)
        /\ xfer' = o
        /\ pc' = IF Raises(o) THEN "raised" ELSE "rs_read"
    /\ data' = <<>>
    /\ packet' = NoPacket
    /\ UNCHANGED <<sessionVars, streamVars, op, args, out, chans, ret, nreads,
                   startDepth>>

\* the retry decision: `if len(raw) != nsamples`, `if depth < 10`
LengthWrong(raw, a) == Len(raw) # a.nsamples
\* mutant: one retry fewer
Retry_OneFewer(raw, a, depth) == LengthWrong(raw, a) /\ depth < MaxRetries - 1
Retry(raw, a, depth) == LengthWrong(raw, a) /\ depth < MaxRetries
DepthAfter(raw, a, depth) == IF Retry(raw, a, depth) THEN depth + 1 ELSE 0

\* range(lowchan, max(lowchan + 1, highchan)) as a sequence
Max(x, y) == IF x >= y THEN x ELSE y
Range(lo, hi) == [j \in 1..Max(hi - lo, 0) |-> lo + j - 1]
ChanRange(a) == Range(a.lowchan, Max(a.lowchan + 1, a.highchan))

\* self.stop(), then the length check that either retries (flush, recursive
\* call) or goes on to the channel loop
SR_Stop ==
    /\ pc = "sr_stop"
    /\ \E o \in Outcomes :
        /\ sent' = SendLog(ScanStop)
        /\ dev' = SendDev(ScanStop, o)
        /\ xfer' = o
        /\ IF Raises(o)
           THEN /\ pc' = "raised"
                /\ UNCHANGED <<read_recursion_depth, chans>>
           ELSE /\ read_recursion_depth' =
                        DepthAfter(data, args, read_recursion_depth)
                /\ pc' = IF Retry(data, args, read_recursion_depth)
                         THEN "fl_read" ELSE "sr_chan"
                /\ chans' = IF Retry(data, args, read_recursion_depth)
                            THEN chans ELSE ChanRange(args)
    /\ out' = NoOut
    /\ UNCHANGED <<conf, calib_data, streamVars, op, args, data, packet, ret,
                   nreads, startDepth>>

\* data[start::step] of Python (start is a 0-based index, step > 0)
Strided(s, start, step) ==
    LET cnt == IF Len(s) > start
               THEN (Len(s) - start + step - 1) \div step ELSE 0
    IN [j \in 1..cnt |-> s[start + (j - 1) * step + 1]]

NChannels(a) == 1 + a.highchan - a.lowchan
\* out[chan] = data[chan::nchannels]
ChanSlice(raw, chan, a) == Strided(raw, chan, NChannels(a))

\* scale_and_calibrate_data(data, min_voltage, max_voltage, calib): the volts
\* are (data*slope + offset) / max_counts * full_scale + min_voltage; the model
\* keeps the numerator of that value over the denominator max_counts
ScaleAndCalibrate(d, min_voltage, max_voltage, calib) ==
    LET full_scale == max_voltage - min_voltage
    IN [j \in 1..Len(d) |->
            (d[j] * calib[1] + calib[2]) * full_scale + min_voltage * max_counts]

\* get_calib_data(channel): two queries; "ok" with the pair parsed from the
\* replies, or an exception in the first or in the second query (send_message
\* raises
\* ("raise1", "raise2"), or a reply that float() or split('=')[1] rejects
\* ("bad1", "bad2")
CalibResults ==
    [kind : {"ok"}, val : CalibValues]
        \cup [kind : {"raise1", "raise2", "bad1", "bad2"}, val : {<<0, 0>>}]
CalibQueries(chan, c) ==
    IF c.kind \in {"raise1", "bad1"} THEN << <<"?AI:SLOPE", chan>> >>
    ELSE << <<"?AI:SLOPE", chan>>, <<"?AI:OFFSET", chan>> >>
CalibXfer(c) == IF c.kind \in {"raise1", "raise2"} THEN "fail_in" ELSE "ok"

CalibKey(chan, a) == <<chan, a.mode, RangeCode(a.vrange)>>
\* mutant: the cache is never consulted
CalibMiss_Always(chan, a) == TRUE
\* `if not (key in self.calib_data)`
CalibMiss(chan, a) == CalibKey(chan, a) \notin DOMAIN calib_data

\* `if len(out) == 1: out = out[key]`
Result(o) ==
    IF Cardinality(DOMAIN o) = 1
    THEN [kind |-> "seq", val |-> o[CHOOSE c \in DOMAIN o : TRUE]]
    ELSE [kind |-> "map", val |-> o]

\* one iteration of `for chan in range(...)`; the last one is followed by the
\* return
SR_Chan ==
    /\ pc = "sr_chan"
    /\ chans # <<>>
    /\ LET chan == Head(chans)
           key == CalibKey(chan, args)
           slice == ChanSlice(data, chan, args)
       IN \E c \in CalibResults :
            LET queried == args.scale /\ CalibMiss(chan, args)
                raised == queried /\ c.kind # "ok"
                cal == IF queried THEN c.val ELSE calib_data[key]
                val == IF args.scale
                       THEN ScaleAndCalibrate(slice, -args.vrange, args.vrange, cal)
                       ELSE slice
                newout == (chan :> val) @@ out
            IN /\ sent' = IF queried THEN sent \o CalibQueries(chan, c) ELSE sent
               /\ xfer' = IF queried THEN CalibXfer(c) ELSE xfer
               /\ calib_data' = IF queried /\ ~raised
                                THEN (key :> c.val) @@ calib_data
                                ELSE calib_data
               /\ out' = IF raised THEN out ELSE newout
               /\ chans' = IF raised THEN chans ELSE Tail(chans)
               /\ pc' = IF raised THEN "raised"
                        ELSE IF Tail(chans) = <<>> THEN "returned" ELSE "sr_chan"
               /\ ret' = IF ~raised /\ Tail(chans) = <<>>
                         THEN Result(newout) ELSE ret
    /\ UNCHANGED <<conf, read_recursion_depth, streamVars, op, args, data,
                   packet, nreads, startDepth, dev>>

\* ------------------------------------------------------ continuous transfer
\* A deque is its items (oldest first) and its maxlen, with `taken`, the
\* concatenation of what get_new_bulk_data has returned from it so far, and
\* `dropped`, the number of items it has discarded because it was full; a
\* PollingThread is whether it is alive, its shutdown and new_data events,
\* its position in
\* the polling loop and the number of packets it has read.  Thread t is
\* created together with deque t and polls into it.

\* mutant: a deque without maxlen
DequeAppend_Unbounded(q, x) == [q EXCEPT !.items = Append(@, x)]
\* collections.deque(maxlen = n).append(x): a full deque drops its oldest item
DequeAppend(q, x) ==
    IF Len(q.items) >= q.maxlen
    THEN [q EXCEPT !.items = Append(Tail(@), x), !.dropped = @ + 1]
    ELSE [q EXCEPT !.items = Append(@, x)]

\* the k-th packet poller t reads from the bulk pipe, as its samples
Packet(t, k) == <<100 * t + k>>

\* start_continuous_transfer(rate, buf_size, packet_size)
StartContinuousTransfer ==
    /\ Ready
    /\ Len(threads) < MaxThreads
    /\ \E buf_size \in 1..MaxBufSize :
        bufs' = Append(bufs, [items |-> <<>>, maxlen |-> buf_size,
                              taken |-> <<>>, dropped |-> 0])
    /\ threads' = Append(threads, [alive |-> TRUE, shutdown |-> FALSE,
                                   new_data |-> FALSE, at |-> "check",
                                   nread |-> 0])
    /\ data_buffer' = <<Len(bufs) + 1>>
    /\ polling_thread' = <<Len(threads) + 1>>
    /\ op' = "start_continuous_transfer"
    /\ args' = NoArgs
    /\ pc' = "returned"
    /\ ret' = NoRet
    /\ sent' = <<>>
    /\ xfer' = None
    /\ UNCHANGED <<sessionVars, localVars, dev, drained>>

\* stop_continuous_transfer(): nothing when self._polling_thread is None,
\* else shutdown.set() and then join()
StopContinuousTransfer ==
    /\ Ready
    /\ op' = "stop_continuous_transfer"
    /\ args' = NoArgs
    /\ ret' = NoRet
    /\ sent' = <<>>
    /\ xfer' = None
    /\ IF polling_thread = <<>>
       THEN /\ pc' = "returned"
            /\ UNCHANGED threads
       ELSE /\ pc' = "st_join"
            /\ threads' = [threads EXCEPT ![polling_thread[1]].shutdown = TRUE]
    /\ UNCHANGED <<sessionVars, localVars, dev, polling_thread, data_buffer,
                   bufs, drained>>

\* mutant: stop does not wait for the thread
JoinReturns_NoWait(t) == TRUE
\* self._polling_thread.join() returns once the thread has ended
JoinReturns(t) == ~threads[t].alive

\* join() has returned; self._polling_thread = None
StopJoin ==
    /\ pc = "st_join"
    /\ JoinReturns(polling_thread[1])
    /\ polling_thread' = <<>>
    /\ pc' = "returned"
    /\ UNCHANGED <<sessionVars, localVars, dev, data_buffer, bufs, threads,
                   drained, op, args, ret, sent, xfer>>

\* mutant: `if wait:`, whatever the pipeline's state
Waits_WheneverAsked(wait) == wait
\* get_new_bulk_data(wait): `if wait and self._polling_thread is not None`
Waits(wait) == wait /\ polling_thread # <<>>

GetNewBulkData ==
    /\ Ready
    /\ \E wait \in BOOLEAN :
        /\ args' = [NoArgs EXCEPT !.wait = wait]
        /\ pc' = IF Waits(wait) THEN "gd_wait" ELSE "gd_pop"
    /\ op' = "get_new_bulk_data"
    /\ drained' = <<>>
    /\ ret' = NoRet
    /\ sent' = <<>>
    /\ xfer' = None
    /\ UNCHANGED <<sessionVars, localVars, dev, polling_thread, data_buffer,
                   bufs, threads>>

\* self._polling_thread.new_data.wait() returns once the event is set
GD_Wait ==
    /\ pc = "gd_wait"
    /\ threads[polling_thread[1]].new_data
    /\ pc' = "gd_pop"
    /\ UNCHANGED <<sessionVars, localVars, dev, streamVars, op, args, ret,
                   sent, xfer>>

\* `while self.data_buffer:` is false for None and for an empty deque
BufferEmpty == data_buffer = <<>> \/ bufs[data_buffer[1]].items = <<>>

\* mutant: deque.pop(), which takes the newest item
PopLeft_Newest(q) ==
    <<q.items[Len(q.items)],
      [q EXCEPT !.items = SubSeq(@, 1, Len(@) - 1)]>>
\* deque.popleft(): the oldest item, and the deque without it
PopLeft(q) == <<Head(q.items), [q EXCEPT !.items = Tail(@)]>>

\* one test of `while self.data_buffer:` and, when it is true,
\* data.extend(self.data_buffer.popleft())
GD_Pop ==
    /\ pc = "gd_pop"
    /\ IF BufferEmpty
       THEN /\ pc' = "gd_clear"
            /\ UNCHANGED <<bufs, drained>>
       ELSE /\ pc' = "gd_pop"
            /\ drained' = drained \o PopLeft(bufs[data_buffer[1]])[1]
            /\ bufs' = [bufs EXCEPT ![data_buffer[1]] = PopLeft(@)[2]]
    /\ UNCHANGED <<sessionVars, localVars, dev, polling_thread, data_buffer,
                   threads, op, args, ret, sent, xfer>>

\* `if self._polling_thread is not None: new_data.clear()`, `return data`
GD_Clear ==
    /\ pc = "gd_clear"
    /\ threads' = IF polling_thread = <<>> THEN threads
                  ELSE [threads EXCEPT ![polling_thread[1]].new_data = FALSE]
    /\ ret' = [kind |-> "seq", val |-> drained]
    /\ bufs' = IF data_buffer = <<>> THEN bufs
               ELSE [bufs EXCEPT ![data_buffer[1]].taken = @ \o drained]
    /\ drained' = <<>>
    /\ pc' = "returned"
    /\ UNCHANGED <<sessionVars, localVars, dev, polling_thread, data_buffer,
                   op, args, sent, xfer>>

\* ---- PollingThread.run (utils.py): `while not shutdown.is_set()`
callerVars == <<pc, op, args, ret, sent, xfer, drained>>

\* the loop test, reached after an append and after a swallowed exception:
\* the thread ends when shutdown is set, else it issues a read
PollerCheck(t) ==
    /\ threads[t].alive
    /\ threads[t].at \in {"check", "caught"}
    /\ threads' = IF threads[t].shutdown
                  THEN [threads EXCEPT ![t].alive = FALSE, ![t].at = "done"]
                  ELSE [threads EXCEPT ![t].at = "read"]
    /\ UNCHANGED <<sessionVars, localVars, dev, polling_thread, data_buffer,
                   bufs, callerVars>>

\* the packets read by threads 1..n
RECURSIVE PacketsRead(_)
PacketsRead(n) == IF n = 0 THEN 0 ELSE threads[n].nread + PacketsRead(n - 1)

\* the read returns a packet: it is appended to the deque and new_data is set
PollerAppend(t) ==
    /\ threads[t].alive
    /\ threads[t].at = "read"
    /\ PacketsRead(Len(threads)) < MaxPackets
    /\ bufs' = [bufs EXCEPT ![t] = DequeAppend(@, Packet(t, threads[t].nread + 1))]
    /\ threads' = [threads EXCEPT ![t].nread = @ + 1, ![t].new_data = TRUE,
                                  ![t].at = "check"]
    /\ UNCHANGED <<sessionVars, localVars, dev, polling_thread, data_buffer,
                   callerVars>>

\* mutant: the exception is not caught and ends the thread
PollerFault_Dies(t) ==
    /\ threads[t].alive
    /\ threads[t].at = "read"
    /\ threads' = [threads EXCEPT ![t].alive = FALSE, ![t].at = "done"]
    /\ UNCHANGED <<sessionVars, localVars, dev, polling_thread, data_buffer,
                   bufs, callerVars>>

\* the read raises (a timeout or any other fault): the exception is caught
\* and dropped, the loop goes on
PollerFault(t) ==
    /\ threads[t].alive
    /\ threads[t].at = "read"
    /\ threads' = [threads EXCEPT ![t].at = "caught"]
    /\ UNCHANGED <<sessionVars, localVars, dev, polling_thread, data_buffer,
                   bufs, callerVars>>

Poller == \E t \in 1..Len(threads) :
            PollerCheck(t) \/ PollerAppend(t) \/ PollerFault(t)

\* ------------------------------------------------------------------ Init
DevInit == [chmode |-> None, range |-> None, lowchan |-> None,
            highchan |-> None, rate |-> None, samples |-> None,
            scanning |-> FALSE]

Init ==
    /\ conf = NoConf
    /\ calib_data = NoCalib
    /\ read_recursion_depth = 0
    /\ polling_thread = <<>>
    /\ data_buffer = <<>>
    /\ pc = "idle"
    /\ op = None
    /\ args = NoArgs
    /\ data = <<>>
    /\ packet = <<>>
    /\ out = NoOut
    /\ chans = <<>>
    /\ ret = NoRet
    /\ sent = <<>>
    /\ nreads = 0
    /\ startDepth = 0
    /\ dev = DevInit
    /\ xfer = None
    /\ bufs = <<>>
    /\ threads = <<>>
    /\ drained = <<>>

\* ---- the one-shot read: simple_read without scaling
RawArgs == { a \in ReadArgs : ~a.scale }
\* configure_read inside simple_read: it succeeds or its first command is lost
ReadConfFailures == { <<0, "ok">>, <<1, "fail_out">> }

Next ==
    \/ SimpleRead(RawArgs)
    \/ SR_Configure(ReadConfFailures)
    \/ SR_Start
    \/ ReadScanStep
    \/ SR_Stop
    \/ FlushStep
    \/ SR_Chan

Spec == Init /\ [][Next]_vars

\* ---- configure_read and stop called by the user, every failure point
ConfNext ==
    \/ ConfigureRead(ConfArgs, ConfFailures)
    \/ Stop

ConfSpec == Init /\ [][ConfNext]_vars

\* ---- the one-shot read with scaling: the calibration cache
CalArgs == { a \in ReadArgs : a.scale /\ a.highchan <= 1 /\ a.mode = "SE" }

CalNext ==
    \/ SimpleRead(CalArgs)
    \/ SR_Configure(ReadConfFailures)
    \/ SR_Start
    \/ ReadScanStep
    \/ SR_Stop
    \/ FlushStep
    \/ SR_Chan

CalSpec == Init /\ [][CalNext]_vars
\* ---- continuous transfer: the caller starts, stops and drains while the
\* pollers run
StreamNext ==
    \/ StartContinuousTransfer
    \/ StopContinuousTransfer
    \/ StopJoin
    \/ GetNewBulkData
    \/ GD_Wait
    \/ GD_Pop
    \/ GD_Clear
    \/ Poller

StreamSpec == Init /\ [][StreamNext]_vars

\* ---- the bulk read loops called by the user; the caller's thread keeps
\* running, so a loop iteration that can be taken is eventually taken
LiveNext ==
    \/ ReadScanData
    \/ ReadScanStep
    \/ FlushInputData
    \/ FlushStep
    \/ Stop

LiveSpec ==
    Init /\ [][LiveNext]_vars /\ WF_vars(ReadScanStep) /\ WF_vars(FlushStep)

\* ================================================================== claims

\* C1 (as claimed): a one-shot read with scale = false whose raw buffer has
\* the requested length returns one sequence for every scanned channel
\* lowchan..highchan (1 + highchan - lowchan in all); lowchan = 0,
\* highchan = 1 and raw data [10,20,30,40] gives {0: [10,30], 1: [20,40]}.
C1_EveryScannedChannelReturned ==
    (op = "simple_read" /\ pc = "returned" /\ ~args.scale
        /\ Len(data) = args.nsamples)
    => /\ IF ret.kind = "map"
          THEN DOMAIN ret.val = args.lowchan..args.highchan
          ELSE args.lowchan = args.highchan
       /\ (args.lowchan = 0 /\ args.highchan = 1 /\ data = <<10, 20, 30, 40>>)
            => ret = [kind |-> "map",
                      val |-> (0 :> <<10, 30>>) @@ (1 :> <<20, 40>>)]

C8_SingleSequenceIffOneChannel ==
    (op = "simple_read" /\ pc = "returned")
    => ((ret.kind = "seq") <=> (args.lowchan = args.highchan))
\* C6: configure_read called with the recorded configuration issues no
\* command (and changes nothing on the device); a second configure_read with
\* the arguments of one that has just returned issues no command.
C6_ConfigureTwiceIssuesOnce ==
    [][ (Ready /\ op' = "configure_read")
        => /\ (NewConf(args') = conf)
                => (sent' = <<>> /\ dev' = dev /\ conf' = conf
                        /\ pc' = "returned")
           /\ (op = "configure_read" /\ pc = "returned" /\ args' = args)
                => sent' = <<>> ]_vars

\* C6 witness: a configure_read has returned without issuing a command
\* because its arguments equal the recorded configuration.
C6_Witness ==
    /\ op = "configure_read" /\ pc = "returned"
    /\ sent = <<>>
    /\ conf = NewConf(args)

\* C7: when a send_message of configure_read fails, configure_read raises and
\* self.conf is what it was before the call, which is not the requested
\* configuration; a configure_read with the same arguments after one that
\* raised issues commands again.
C7_FailedConfigureKeepsConf ==
    [][ (Ready /\ op' = "configure_read")
        => /\ (xfer' \in {"fail_out", "fail_in"})
                => (pc' = "raised" /\ conf' = conf /\ conf' # NewConf(args'))
           /\ (op = "configure_read" /\ pc = "raised" /\ args' = args)
                => sent' # <<>> ]_vars

\* C7 witness: the last of the six commands failed after an earlier
\* configuration had been recorded.
C7_Witness ==
    /\ op = "configure_read" /\ pc = "raised"
    /\ Len(sent) = 6
    /\ conf # NoConf
    /\ conf # NewConf(args)

\* C9: an entry of calib_data is never changed or removed; an iteration of
\* the channel loop of a scaled read whose key is in calib_data sends no
\* query, does not raise, and scales with the stored pair.
C9_CachedCalibrationReused ==
    [][ /\ \A k \in DOMAIN calib_data :
            k \in DOMAIN calib_data' /\ calib_data'[k] = calib_data[k]
        /\ (pc = "sr_chan" /\ args.scale
                /\ CalibKey(Head(chans), args) \in DOMAIN calib_data)
            => /\ sent' = sent
               /\ pc' # "raised"
               /\ out'[Head(chans)] =
                    ScaleAndCalibrate(ChanSlice(data, Head(chans), args),
                                      -args.vrange, args.vrange,
                                      calib_data[CalibKey(Head(chans), args)])
      ]_vars

\* C9 witness: a scaled read has returned without having sent any query.
C9_Witness ==
    /\ op = "simple_read" /\ pc = "returned" /\ args.scale
    /\ \A i \in 1..Len(sent) : sent[i][1] \notin {"?AI:SLOPE", "?AI:OFFSET"}
\* C3 (as claimed): get_new_bulk_data empties the buffer and clears the
\* data-available signal as one atomic step with respect to the poller: when
\* a drain has finished, no packet is left in the buffer with the signal
\* cleared.
C3_DrainAndClearAtomic ==
    (op = "get_new_bulk_data" /\ pc = "returned" /\ polling_thread # <<>>)
    => ~ /\ bufs[data_buffer[1]].items # <<>>
         /\ ~threads[polling_thread[1]].new_data

\* C4 (as claimed): at most one poller thread is alive; exactly one while
\* the pipeline is Polling and none once stop has returned.
C4_AtMostOnePoller ==
    LET alive == { t \in 1..Len(threads) : threads[t].alive }
    IN /\ Cardinality(alive) <= 1
       /\ (Ready /\ polling_thread # <<>>) => Cardinality(alive) = 1
       /\ (Ready /\ polling_thread = <<>>) => Cardinality(alive) = 0

\* C5: while the pipeline is Idle after a stop (self._polling_thread is
\* None), the poller of the current stream buffer has ended and the buffer
\* only ever loses packets at its head, to a drain: nothing is appended or
\* evicted; stop_continuous_transfer called in Idle changes nothing of the
\* pipeline and returns.
C5_NoBufferMutationAfterStop ==
    [][ /\ (polling_thread = <<>> /\ polling_thread' = <<>>
                /\ data_buffer # <<>>)
            => /\ ~threads[data_buffer[1]].alive
               /\ \E n \in 0..Len(bufs[data_buffer[1]].items) :
                    bufs'[data_buffer[1]].items =
                        SubSeq(bufs[data_buffer[1]].items, n + 1,
                               Len(bufs[data_buffer[1]].items))
        /\ (StopContinuousTransfer /\ polling_thread = <<>>)
            => (pc' = "returned" /\ UNCHANGED streamVars)
      ]_vars

\* C5 witness: stop has returned after a join, and the poller it stopped had
\* left a packet in the buffer.
C5_Witness ==
    /\ op = "stop_continuous_transfer" /\ pc = "returned"
    /\ polling_thread = <<>>
    /\ data_buffer # <<>>
    /\ threads[data_buffer[1]].shutdown
    /\ bufs[data_buffer[1]].items # <<>>
\* C10 (as claimed): every operation other than drain(wait=true) terminates
\* for every device behaviour: a running flush_input_data or read_scan_data
\* eventually returns or raises.
C10_BulkLoopsTerminate ==
    (pc \in {"fl_read", "rs_read"}) ~> (pc \in {"returned", "raised"})

\* C11: an iteration of the read_scan_data loop whose read times out or
\* returns zero bytes ends the loop without raising, and what is returned is
\* the data accumulated before it, however short; the accumulated data are
\* always the samples the device has put on the pipe since the loop began,
\* in order, none lost or repeated; the loop reads only while fewer than
\* `length` samples are accumulated.
C11_ReadScanReturnsAccumulated ==
    [][ (pc = "rs_read")
        => /\ (xfer' = "timeout" \/ (xfer' = "packet" /\ packet' = <<0>>))
                => /\ pc' \notin {"raised", "rs_read"}
                   /\ data' = data
                   /\ (op = "read_scan_data")
                        => (pc' = "returned"
                            /\ ret' = [kind |-> "seq", val |-> data])
           /\ Len(data) < args.nsamples
           /\ data' = [k \in 1..Len(data') |-> DevSample(k)]
           /\ (Len(data') >= args.nsamples) => pc' # "rs_read" ]_vars

\* C11 witness: read_scan_data has returned fewer samples than asked for,
\* but some, after a timeout.
C11_Witness ==
    /\ op = "read_scan_data" /\ pc = "returned"
    /\ xfer = "timeout"
    /\ ret.val # <<>>
    /\ Len(ret.val) < args.nsamples

C13_PollerSurvivesReadFaults ==
    [][ /\ pc' = "raised" => pc = "raised"
        /\ \A t \in 1..Len(threads) :
            /\ (threads[t].at = "read" /\ threads'[t].at # "read"
                    /\ threads'[t].nread = threads[t].nread)
                => /\ threads'[t].alive
                   /\ threads'[t].at = "caught"
                   /\ UNCHANGED callerVars
            /\ (threads[t].at = "caught" /\ threads'[t].at # "caught")
                => IF threads[t].shutdown
                   THEN ~threads'[t].alive
                   ELSE threads'[t].alive /\ threads'[t].at = "read"
            /\ (threads[t].alive /\ ~threads'[t].alive)
                => threads[t].shutdown
            /\ (~threads[t].shutdown /\ threads'[t].shutdown)
                => (op' = "stop_continuous_transfer"
                        /\ polling_thread = <<t>>) ]_vars

\* C13 witness: a poller whose read has just raised is alive, stop has not
\* been asked for, and it had appended a packet before.
C13_Witness ==
    \E t \in 1..Len(threads) :
        /\ threads[t].at = "caught"
        /\ threads[t].alive
        /\ ~threads[t].shutdown
        /\ threads[t].nread > 0

\* C14 (as claimed): with n = 1 + highchan - lowchan and scale = false, the
\* sequence a one-shot read returns for channel lowchan + k is the raw
\* samples at positions k, k + n, k + 2n, ...; a single-channel read returns
\* the whole raw buffer whatever the channel number.
C14_ChannelIsStrideFromItsOffset ==
    (op = "simple_read" /\ pc = "returned" /\ ~args.scale)
    => /\ (ret.kind = "map")
            => \A c \in DOMAIN ret.val :
                 ret.val[c] = [j \in 1..Len(ret.val[c]) |->
                                data[(c - args.lowchan)
                                     + (j - 1) * (1 + args.highchan - args.lowchan)
                                     + 1]]
       /\ (args.lowchan = args.highchan) => ret = [kind |-> "seq", val |-> data]

\* C15: a configure_read whose arguments differ from the recorded
\* configuration and in which no command fails issues exactly the six
\* commands channel mode, range, low channel, high channel, rate, sample
\* count, in this order, and then records the new configuration; whatever
\* the outcome, the commands issued are a prefix of these six, and self.conf
\* changes only in a call that issued all six without a failure.
C15_SixCommandsThenRecord ==
    [][ (Ready /\ op' = "configure_read" /\ NewConf(args') # conf)
        => LET six == << <<"AI:CHMODE", args'.mode>>,
                         <<"AISCAN:RANGE", <<"BIP", args'.vrange, "V">> >>,
                         <<"AISCAN:LOWCHAN", args'.lowchan>>,
                         <<"AISCAN:HIGHCHAN", args'.highchan>>,
                         <<"AISCAN:RATE", args'.frequency>>,
                         <<"AISCAN:SAMPLES", args'.nsamples>> >>
           IN /\ (xfer' = "ok")
                   => /\ pc' = "returned"
                      /\ sent' = six
                      /\ conf' = <<args'.mode, args'.vrange, args'.lowchan,
                                   args'.highchan, args'.frequency,
                                   args'.nsamples>>
              /\ Len(sent') \in 1..6
              /\ sent' = SubSeq(six, 1, Len(sent'))
              /\ (conf' # conf) => (Len(sent') = 6 /\ xfer' = "ok") ]_vars

\* C15 witness: a configure_read for two or more channels has returned after
\* issuing six commands, and its configuration is recorded.
C15_Witness ==
    /\ op = "configure_read" /\ pc = "returned"
    /\ Len(sent) = 6
    /\ conf = NewConf(args)
    /\ dev.highchan = args.highchan /\ dev.highchan # 0

\* C16 (as claimed): whenever configure_read returns without issuing a
\* command because the requested configuration equals the recorded one, the
\* six settings last received by the device equal the requested ones.
C16_SkippedConfigureMatchesDevice ==
    (op = "configure_read" /\ pc = "returned" /\ sent = <<>>)
    => /\ dev.chmode = args.mode
       /\ dev.range = <<"BIP", args.vrange, "V">>
       /\ dev.lowchan = args.lowchan
       /\ dev.highchan = args.highchan
       /\ dev.rate = args.frequency
       /\ dev.samples = args.nsamples

\* C17 (as claimed): read_recursion_depth is 0 whenever no one-shot read is
\* in progress, whether the earlier reads returned or raised, and it never
\* leaves the range 0..10.
C17_RetryCounterZeroBetweenReads ==
    /\ read_recursion_depth \in 0..10
    /\ Ready => read_recursion_depth = 0

\* C18 (as claimed): when a one-shot read has exited, by returning or by
\* raising, every AISCAN:START it issued is followed by an AISCAN:STOP and
\* the device is not scanning.  A START or STOP whose own send_message
\* raised is left out of the statement: only exits in which every command
\* transfer succeeded are held to it.
C18_EveryStartIsStopped ==
    (op = "simple_read" /\ pc \in {"returned", "raised"}
        /\ xfer \notin {"fail_out", "fail_in"})
    => /\ \A i \in 1..Len(sent) :
            (sent[i] = <<"AISCAN:START">>)
                => \E j \in (i + 1)..Len(sent) : sent[j] = <<"AISCAN:STOP">>
       /\ ~dev.scanning

\* C19: for every deque, the samples the drains have taken from it so far
\* (those already returned, then those the drain in progress has popped) are
\* packets its poller appended, in the order of their reception and each at
\* most once; every packet the poller appended is taken, still buffered or
\* was discarded by a full deque.  Hence, when the deque never discarded a
\* packet and a drain has returned after stop_continuous_transfer, the
\* drains have returned every appended packet exactly once, in order.
C19_DrainsAreOrderedSubsequence ==
    \A b \in 1..Len(bufs) :
        LET q == bufs[b]
            n == threads[b].nread
            s == IF data_buffer = <<b>> THEN q.taken \o drained ELSE q.taken
        IN /\ \E f \in [1..Len(s) -> 1..n] :
                /\ \A i \in 1..Len(s) : <<s[i]>> = Packet(b, f[i])
                /\ \A i, j \in 1..Len(s) : (i < j) => (f[i] < f[j])
           /\ Len(s) + Len(q.items) + q.dropped = n
           /\ (q.dropped = 0 /\ data_buffer = <<b>> /\ polling_thread = <<>>
                    /\ op = "get_new_bulk_data" /\ pc = "returned")
                => q.taken = [k \in 1..n |-> Packet(b, k)[1]]

\* C19 witness: after stop, a drain has returned the second packet alone;
\* with the first, returned by an earlier drain, the drains have returned
\* both packets the poller appended.
C19_Witness ==
    /\ op = "get_new_bulk_data" /\ pc = "returned"
    /\ polling_thread = <<>>
    /\ data_buffer # <<>>
    /\ LET b == data_buffer[1]
       IN /\ threads[b].nread = 2
          /\ bufs[b].dropped = 0
          /\ ret.val = Packet(b, 2)
          /\ bufs[b].taken = Packet(b, 1) \o Packet(b, 2)

\* C20: get_new_bulk_data waits for the new_data event only when wait is
\* true and a polling thread is recorded; with wait = false, or with no
\* polling thread (never started, or stop_continuous_transfer has returned),
\* it goes straight to emptying the deque.  With no polling thread it returns
\* exactly the packets that were buffered when it was called, oldest first:
\* the empty sequence when there is no deque or the deque is empty.
C20_DrainWaitsOnlyWhenPolling ==
    [][ LET idle == polling_thread = <<>>
            buffered == IF data_buffer = <<>> THEN <<>>
                        ELSE [i \in 1..Len(bufs[data_buffer[1]].items) |->
                                bufs[data_buffer[1]].items[i][1]]
            buffered_after == IF data_buffer' = <<>> THEN <<>>
                        ELSE [i \in 1..Len(bufs'[data_buffer'[1]].items) |->
                                bufs'[data_buffer'[1]].items[i][1]]
        IN /\ (pc = "gd_wait") => (args.wait /\ ~idle)
           /\ (Ready /\ pc' \in {"gd_wait", "gd_pop", "gd_clear"})
                => /\ op' = "get_new_bulk_data"
                   /\ drained' = <<>>
                   /\ pc' = IF args'.wait /\ ~idle THEN "gd_wait" ELSE "gd_pop"
           /\ (op = "get_new_bulk_data" /\ pc \in {"gd_pop", "gd_clear"}
                    /\ pc' # pc)
                => /\ (pc = "gd_pop") => buffered = <<>>
                   /\ pc' = IF pc = "gd_pop" THEN "gd_clear" ELSE "returned"
                   /\ (pc' = "returned")
                        => ret' = [kind |-> "seq", val |-> drained]
           /\ (op = "get_new_bulk_data" /\ pc = "gd_pop" /\ idle)
                => drained' \o buffered_after = drained \o buffered ]_vars

\* C20 witness: a drain called with wait = true after
\* stop_continuous_transfer had returned has returned the packets left in
\* the deque.
C20_Witness ==
    /\ op = "get_new_bulk_data" /\ pc = "returned"
    /\ args.wait
    /\ polling_thread = <<>>
    /\ ret.val # <<>>
====
